---- MODULE Spec2Model ----
(***************************************************************************)
(* Flood Risk Prediction Dashboard (final6_app.py).                        *)
(*                                                                         *)
(* The dashboard is a Streamlit script: every user interaction (a widget   *)
(* edit or a click of the predict button) re-runs main() from the top.     *)
(* Process state is the st.cache_resource cache of load_models and the     *)
(* widget values; everything else is local to one run.  One run is         *)
(* modelled as a sequence of steps (pc), each step one block of main().    *)
(* `trace` is the ordered log of one run: the calls made to the models and *)
(* the elements written to the page.                                       *)
(*                                                                         *)
(* Units.  Feature values are in hundredths, coordinates in microdegrees,  *)
(* probabilities in units of 1/ProbDenom, US dollars in cents and rupees   *)
(* in paise (hundredths of a rupee).                                       *)
(***************************************************************************)
EXTENDS Integers, Sequences, FiniteSets

(* ------------------------------ bounds -------------------------------- *)

\* Runs of main() explored in one process lifetime.
MaxRuns == 3
\* Probabilities are multiples of 1/ProbDenom.
ProbDenom == 10
\* Class indices the classifier can return are 0..MaxClassIdx.
MaxClassIdx == 3
\* format_rupees is exercised on amounts within FmtWindow paise of each
\* amount of interest.
FmtWindow == 12

(* ------------------------ program constants --------------------------- *)

NUM_FEATURES ==
    << "rainfall_mm", "rain_7d", "rain_30d", "elevation", "dist_to_river",
       "population_density", "impervious_frac", "land_cover_index" >>

FeatureNames == { NUM_FEATURES[i] : i \in DOMAIN NUM_FEATURES }

RISK_LABELS == [ i \in 0..2 |-> << "Low", "Medium", "High" >>[i + 1] ]

RISK_COLORS ==
    [ l \in {"Low", "Medium", "High"} |->
        CASE l = "Low" -> "#28a745"
          [] l = "Medium" -> "#ffc107"
          [] l = "High" -> "#dc3545" ]

USD_TO_INR == 83

CRORE == 10000000

LAKH == 100000

(* --------------------------- option values ---------------------------- *)

\* Python's None and a present value.
None == << >>
Some(v) == << v >>
Get(o) == o[1]

(* ----------------------------- variables ------------------------------ *)

VARIABLES
    pc,          \* position of the current run of main(); "idle" between runs
    runs,        \* runs of main() started so far
    cache,       \* st.cache_resource entry of load_models: None or Some(result)
    loadCount,   \* executions of the body of load_models (reads from disk)
    features,    \* widget values of the eight feature inputs
    lat, lon,    \* widget values of the coordinates
    city_name,   \* widget value of the location name
    clicked,     \* the predict button's value in the current run
    clf, reg,    \* main's locals: the model objects, None or Some(object)
    probas,      \* local: classifier probabilities <<Low, Medium, High>>
    pred_idx,    \* local: classifier class index
    pred_label,  \* local: RISK_LABELS[pred_idx]
    pred_log,    \* local: regressor output (log1p space)
    pred_damage_usd,  \* local: expm1(pred_log), cents
    pred_damage_inr,  \* local: converted amount, paise
    exc,         \* the exception being handled, None or Some(cause)
    trace,       \* ordered log of the current run: model calls and page elements
    errors,      \* history: prediction errors reported so far in this process
    h,           \* unit-level harness for the pure functions
    sess,        \* per browser session: its widget values and its run of main()
    gcf,         \* matplotlib.pyplot's current figure (process-wide)
    lastPred     \* history: inputs and results of the last completed prediction

procVars == << cache, loadCount >>
widgetVars == << features, lat, lon, city_name >>
localVars ==
    << clf, reg, probas, pred_idx, pred_label, pred_log,
       pred_damage_usd, pred_damage_inr, exc >>
vars == << pc, runs, cache, loadCount, features, lat, lon, city_name, clicked,
           clf, reg, probas, pred_idx, pred_label, pred_log,
           pred_damage_usd, pred_damage_inr, exc, trace, errors, h,
           sess, gcf, lastPred >>
sessVars == << sess, gcf, lastPred >>

(* --------------------------- input domains ---------------------------- *)

\* Default widget values (the value= arguments), in hundredths.
FeatureDefault(f) ==
    CASE f = "rainfall_mm" -> 1500
      [] f = "rain_7d" -> 6500
      [] f = "rain_30d" -> 18000
      [] f = "elevation" -> 25000
      [] f = "dist_to_river" -> 150
      [] f = "population_density" -> 120000
      [] f = "impervious_frac" -> 40
      [] f = "land_cover_index" -> 60

Sliders == { "impervious_frac", "land_cover_index" }

\* Lower and upper limit the widget of f is created with (min_value for a
\* number_input, the range of a slider); -1 stands for "no upper limit".
FeatureMin(f) == 0
FeatureMax(f) == IF f \in Sliders THEN 100 ELSE -1

\* Values the user is taken to enter for f: the default, the lower limit,
\* and the upper limit where there is one.
FeatureChoices(f) ==
    { FeatureDefault(f), FeatureMin(f) }
        \cup (IF FeatureMax(f) >= 0 THEN { FeatureMax(f) } ELSE {})

LatChoices == { 18520400, 20593700 }
LonChoices == { 73856700, 78962900 }
CityChoices == { "Prediction Location", "Pune" }

\* Probability triples <<P(Low), P(Medium), P(High)>> summing to one that
\* the classifier is taken to return: every P(High), with the rest of the
\* mass on Low or on Medium.
ProbTriples ==
    { << ProbDenom - x[1] - x[2], x[2], x[1] >> :
        x \in { y \in (0..ProbDenom) \X (0..ProbDenom) :
                  y[2] \in { 0, ProbDenom - y[1] } } }

ClassIdx == 0..MaxClassIdx

\* Regressor outputs explored (log1p space): below zero, zero, and values
\* that convert to lakhs and to crores of rupees.
RegOutputs == { -1, 0, 8, 12 }

\* Failures a library call can raise, by the call that raises.
Causes == { "predict_proba failed", "predict failed", "regressor failed",
            "plot failed", "map failed" }

(* --------------------------- pure functions --------------------------- *)

\* A page element or a model call, with what it carries.
El(name, val) == [ el |-> name, val |-> val ]

Max3(p) ==
    IF p[1] >= p[2] /\ p[1] >= p[3] THEN p[1]
    ELSE IF p[2] >= p[3] THEN p[2] ELSE p[3]

\* p / ProbDenom > 0.6 and p / ProbDenom > 0.3.
Above06(p) == 10 * p > 6 * ProbDenom
Above03(p) == 10 * p > 3 * ProbDenom

\* n rupees, in paise.
Rupees(n) == n * 100

\* The alert rule with the thresholds taken inclusively (>= 0.6, >= 0.3).
RiskAssessmentInclusive(label, p_high) ==
    IF label = "High" \/ 10 * p_high >= 6 * ProbDenom THEN "High"
    ELSE IF label = "Medium" \/ 10 * p_high >= 3 * ProbDenom THEN "Medium"
    ELSE "Low"

\* The alert rule with the Medium test made before the High test.
RiskAssessmentMediumFirst(label, p_high) ==
    IF label = "Medium" \/ Above03(p_high) THEN "Medium"
    ELSE IF label = "High" \/ Above06(p_high) THEN "High"
    ELSE "Low"

\* The alert system of main: which of the three guidance messages is written.
\* p_high is probas[2].
RiskAssessment(label, p_high) ==
    IF label = "High" \/ Above06(p_high) THEN "High"
    ELSE IF label = "Medium" \/ Above03(p_high) THEN "Medium"
    ELSE "Low"

\* The st call that carries each guidance message.
AssessmentKind(tier) ==
    CASE tier = "High" -> "error"
      [] tier = "Medium" -> "warning"
      [] tier = "Low" -> "success"

\* create_interactive_map: one marker and one circle at the location.
create_interactive_map(la, lo, risk_level, p_high, damage_inr, city) ==
    LET icon_color == IF risk_level = "High" THEN "red"
                      ELSE IF risk_level = "Medium" THEN "orange"
                      ELSE "green"
        risk_radius == IF risk_level = "High" THEN 3000
                       ELSE IF risk_level = "Medium" THEN 2000
                       ELSE 1000
    IN  [ location |-> << la, lo >>,
          marker |-> [ city |-> city, risk_level |-> risk_level,
                       label_color |-> RISK_COLORS[risk_level],
                       p_high |-> p_high, damage |-> damage_inr,
                       icon_color |-> icon_color ],
          circle |-> [ radius |-> risk_radius,
                       color |-> RISK_COLORS[risk_level] ] ]

\* np.expm1 on the outputs explored, rounded to the cent.
Expm1Table ==
    [ y \in -3..12 |->
        CASE y = -3 -> -95   [] y = -2 -> -86     [] y = -1 -> -63
          [] y = 0 -> 0      [] y = 1 -> 172      [] y = 2 -> 639
          [] y = 3 -> 1909   [] y = 4 -> 5360     [] y = 5 -> 14741
          [] y = 6 -> 40243  [] y = 7 -> 109563   [] y = 8 -> 297996
          [] y = 9 -> 810208 [] y = 10 -> 2202547 [] y = 11 -> 5987314
          [] y = 12 -> 16275379 ]

expm1(y) == Expm1Table[y]

convert_usd_to_inr(usd_amount) == usd_amount * USD_TO_INR

\* format_rupees with open lower bounds (> in place of >=).
format_rupees_open(amount) ==
    IF amount > Rupees(CRORE)
    THEN [ amount |-> amount, divisor |-> CRORE, decimals |-> 2,
           grouped |-> FALSE, suffix |-> "crore" ]
    ELSE IF amount > Rupees(LAKH)
    THEN [ amount |-> amount, divisor |-> LAKH, decimals |-> 2,
           grouped |-> FALSE, suffix |-> "lakh" ]
    ELSE [ amount |-> amount, divisor |-> 1, decimals |-> 0,
           grouped |-> TRUE, suffix |-> "" ]

\* format_rupees: the unit suffix, what the amount is divided by, the
\* decimals printed and whether thousands are grouped.  amount is in paise;
\* the string printed is amount / divisor to that many decimals.
format_rupees(amount) ==
    IF amount >= Rupees(CRORE)
    THEN [ amount |-> amount, divisor |-> CRORE, decimals |-> 2,
           grouped |-> FALSE, suffix |-> "crore" ]
    ELSE IF amount >= Rupees(LAKH)
    THEN [ amount |-> amount, divisor |-> LAKH, decimals |-> 2,
           grouped |-> FALSE, suffix |-> "lakh" ]
    ELSE [ amount |-> amount, divisor |-> 1, decimals |-> 0,
           grouped |-> TRUE, suffix |-> "" ]

\* The seven reference sections, in the order main writes them.
StaticSections ==
    << El("emergency_contacts", "sidebar"), El("safety_guidelines", "page"),
       El("emergency_kit", "page"), El("affected_guidelines", "page"),
       El("help_others", "page"), El("donation_section", "page"),
       El("awareness_facts", "page") >>

\* Elements the script writes before main is called.
PageTop ==
    << El("alert_banner", "warning"), El("title", "page"),
       El("compat_notice", "success") >>

(* ------------------------------ sessions ------------------------------ *)

\* Browser sessions served by the one process.  Streamlit runs the script
\* for each of them in a thread of its own; two are enough for one session
\* to meet another.
Sessions == { "s1", "s2" }

\* A session that has not run the script yet: the widgets hold their
\* value= arguments, main has no locals, the page is empty.
SessionStart ==
    [ pc |-> "idle",
      features |-> [ f \in FeatureNames |-> FeatureDefault(f) ],
      lat |-> 18520400, lon |-> 73856700,
      city_name |-> "Prediction Location",
      clicked |-> FALSE,
      clf |-> None, reg |-> None, probas |-> None, pred_idx |-> None,
      pred_label |-> None, pred_log |-> None, pred_damage_usd |-> None,
      pred_damage_inr |-> None, exc |-> None,
      trace |-> << >> ]

(* ------------------------------- Init --------------------------------- *)

NoLocals ==
    /\ clf = None /\ reg = None /\ probas = None /\ pred_idx = None
    /\ pred_label = None /\ pred_log = None /\ pred_damage_usd = None
    /\ pred_damage_inr = None /\ exc = None

Init ==
    /\ pc = "idle"
    /\ runs = 0
    /\ cache = None
    /\ loadCount = 0
    /\ features = [ f \in FeatureNames |-> FeatureDefault(f) ]
    /\ lat = 18520400
    /\ lon = 73856700
    /\ city_name = "Prediction Location"
    /\ clicked = FALSE
    /\ NoLocals
    /\ trace = << >>
    /\ errors = 0
    /\ h = [ op |-> "none" ]
    /\ sess = [ s \in Sessions |-> SessionStart ]
    /\ gcf = None
    /\ lastPred = None

(* --------------------------- user interaction ------------------------- *)

\* The page of the last run offers the input widgets and the predict button.
FormOnPage == \E i \in DOMAIN trace : trace[i].el = "inputs_form"

\* Every interaction re-runs the script from the top: the page is cleared
\* and the lines before main() write the banner and the title.
BeginRun ==
    /\ pc = "idle"
    /\ runs < MaxRuns
    /\ runs' = runs + 1
    /\ pc' = "load"
    /\ trace' = PageTop
    /\ UNCHANGED << procVars, localVars, errors, h, sessVars >>

\* The page is opened, or re-run without touching a widget.
Rerun ==
    /\ BeginRun
    /\ clicked' = FALSE
    /\ UNCHANGED widgetVars

\* The user edits one of the eight feature widgets.  A number_input only
\* yields values from min_value up and a slider values of its range.
EditFeature ==
    /\ BeginRun
    /\ FormOnPage
    /\ \E f \in FeatureNames :
         \E v \in FeatureChoices(f) \ { features[f] } :
            features' = [ features EXCEPT ![f] = v ]
    /\ clicked' = FALSE
    /\ UNCHANGED << lat, lon, city_name >>

\* The user edits the latitude, the longitude or the location name.
EditLocation ==
    /\ BeginRun
    /\ FormOnPage
    /\ \/ /\ lat' \in LatChoices \ { lat }
          /\ UNCHANGED << lon, city_name >>
       \/ /\ lon' \in LonChoices \ { lon }
          /\ UNCHANGED << lat, city_name >>
       \/ /\ city_name' \in CityChoices \ { city_name }
          /\ UNCHANGED << lat, lon >>
    /\ clicked' = FALSE
    /\ UNCHANGED features

\* The user clicks "Predict Flood Risk".
Click ==
    /\ BeginRun
    /\ FormOnPage
    /\ clicked' = TRUE
    /\ UNCHANGED widgetVars

(* ------------------------------ load_models --------------------------- *)

\* load_models without its cache: every call runs the body.
CacheLookupMiss == None

\* st.cache_resource: the entry stored for load_models, if any.
CacheLookup == cache

\* Outcomes of reading the two artifacts from disk.
LoadOutcomes == { "ok", "No module named 'lightgbm'", "file not found" }

\* What the body of load_models returns and writes for an outcome; a
\* successful load yields fresh model objects, named by the load that made
\* them.
LoadResult(outcome, n) ==
    IF outcome = "ok"
    THEN [ clf |-> Some(n), reg |-> Some(n) ]
    ELSE [ clf |-> None, reg |-> None ]

LoadMessages(outcome) ==
    IF outcome = "ok"
    THEN << El("loading_spinner", "Loading machine learning models..."),
            El("models_loaded", "success") >>
    ELSE << El("loading_spinner", "Loading machine learning models..."),
            El("model_loading_failed", outcome),
            El("load_help",
               IF outcome = "No module named 'lightgbm'"
               THEN "install lightgbm" ELSE "common solutions") >>

\* main: clf, reg = load_models(), then the test of the result.  On a
\* cache hit the body of load_models does not run and the stored result is
\* returned; what Streamlit shows again of the messages of the first call
\* is not part of the log.
LoadModels ==
    /\ pc = "load"
    /\ LET hit == CacheLookup IN
        IF hit # None
        THEN /\ clf' = Get(hit).clf
             /\ reg' = Get(hit).reg
             /\ UNCHANGED << cache, loadCount, trace >>
        ELSE \E outcome \in LoadOutcomes :
             LET res == LoadResult(outcome, loadCount + 1) IN
             /\ loadCount' = loadCount + 1
             /\ cache' = Some(res)
             /\ clf' = res.clf
             /\ reg' = res.reg
             /\ trace' = trace \o LoadMessages(outcome)
    /\ pc' = IF clf' = None \/ reg' = None THEN "degraded" ELSE "form"
    /\ UNCHANGED << runs, widgetVars, clicked, probas, pred_idx, pred_label,
                    pred_log, pred_damage_usd, pred_damage_inr, exc, errors, h, sessVars >>

\* main's locals die when main returns; the button reads False again.
EndRun ==
    /\ pc' = "idle"
    /\ clicked' = FALSE
    /\ clf' = None /\ reg' = None /\ probas' = None /\ pred_idx' = None
    /\ pred_label' = None /\ pred_log' = None /\ pred_damage_usd' = None
    /\ pred_damage_inr' = None /\ exc' = None
    /\ UNCHANGED << runs, procVars, widgetVars, errors, h, sessVars >>

\* The models-missing branch returning right after the instructions.
DegradedBare ==
    /\ pc = "degraded"
    /\ trace' = trace \o << El("install_instructions", "info") >>
    /\ EndRun

\* main, models missing: installation instructions, the reference sections,
\* return.
Degraded ==
    /\ pc = "degraded"
    /\ trace' = trace \o << El("install_instructions", "info") >>
                      \o StaticSections
    /\ EndRun

(* ------------------------------ the form ------------------------------ *)

\* The prediction block entered whether or not the button was clicked.
ButtonPressedAlways == TRUE

\* The value of st.sidebar.button in this run.
ButtonPressed == clicked

\* main: the sidebar widgets are read into features, lat, lon, city_name
\* and the feature summary is written; then the button is tested.
Form ==
    /\ pc = "form"
    /\ trace' = trace \o
         << El("inputs_form", features),
            El("coordinate_picker", "sidebar"),
            El("using_coordinates", << lat, lon >>),
            El("feature_summary", features) >>
    /\ pc' = IF ButtonPressed THEN "proba" ELSE "static"
    /\ UNCHANGED << runs, procVars, widgetVars, clicked, localVars, errors, h, sessVars >>

(* ----------------------------- prediction ----------------------------- *)

\* pd.DataFrame([features], columns=NUM_FEATURES): one row, in schema order.
X_input == [ i \in DOMAIN NUM_FEATURES |-> features[NUM_FEATURES[i]] ]

\* An exception inside the try block: control goes to the except clause.
Raise(cause) ==
    /\ pc' = "except"
    /\ exc' = Some(cause)

stepFrame == << runs, procVars, widgetVars, clicked, clf, reg, h, sessVars >>

\* probas = clf.predict_proba(X_input)[0]
PredictProba ==
    /\ pc = "proba"
    /\ \/ /\ Raise("predict_proba failed")
          /\ UNCHANGED << probas, trace >>
       \/ /\ probas' \in { Some(p) : p \in ProbTriples }
          /\ trace' = Append(trace,
                El("predict_proba", [ model |-> Get(clf), X |-> X_input ]))
          /\ pc' = "predict"
          /\ UNCHANGED exc
    /\ UNCHANGED << errors, stepFrame, pred_idx, pred_label, pred_log,
                    pred_damage_usd, pred_damage_inr >>

\* pred_idx = int(clf.predict(X_input)[0])
Predict ==
    /\ pc = "predict"
    /\ \/ /\ Raise("predict failed")
          /\ UNCHANGED << pred_idx, trace >>
       \/ /\ pred_idx' \in { Some(i) : i \in ClassIdx }
          /\ trace' = Append(trace,
                El("predict", [ model |-> Get(clf), X |-> X_input ]))
          /\ pc' = "label"
          /\ UNCHANGED exc
    /\ UNCHANGED << errors, stepFrame, probas, pred_label, pred_log,
                    pred_damage_usd, pred_damage_inr >>

\* pred_label = RISK_LABELS[pred_idx]: a KeyError for an unknown index.
Label ==
    /\ pc = "label"
    /\ IF Get(pred_idx) \in DOMAIN RISK_LABELS
       THEN /\ pred_label' = Some(RISK_LABELS[Get(pred_idx)])
            /\ trace' = Append(trace, El("label", Get(pred_idx)))
            /\ pc' = "reg"
            /\ UNCHANGED exc
       ELSE /\ Raise("KeyError")
            /\ UNCHANGED << pred_label, trace >>
    /\ UNCHANGED << errors, stepFrame, probas, pred_idx, pred_log,
                    pred_damage_usd, pred_damage_inr >>

\* pred_log = reg.predict(X_input)[0]
RegPredict ==
    /\ pc = "reg"
    /\ \/ /\ Raise("regressor failed")
          /\ UNCHANGED << pred_log, trace >>
       \/ /\ pred_log' \in { Some(y) : y \in RegOutputs }
          /\ trace' = Append(trace,
                El("reg_predict", [ model |-> Get(reg), X |-> X_input ]))
          /\ pc' = "expm1"
          /\ UNCHANGED exc
    /\ UNCHANGED << errors, stepFrame, probas, pred_idx, pred_label,
                    pred_damage_usd, pred_damage_inr >>

\* pred_damage_usd = float(np.expm1(pred_log))
InverseLog ==
    /\ pc = "expm1"
    /\ pred_damage_usd' = Some(expm1(Get(pred_log)))
    /\ trace' = Append(trace, El("expm1", Get(pred_log)))
    /\ pc' = "convert"
    /\ UNCHANGED << errors, stepFrame, probas, pred_idx, pred_label, pred_log,
                    pred_damage_inr, exc >>

\* pred_damage_inr = convert_usd_to_inr(pred_damage_usd)
Convert ==
    /\ pc = "convert"
    /\ pred_damage_inr' = Some(convert_usd_to_inr(Get(pred_damage_usd)))
    /\ trace' = Append(trace, El("convert_usd_to_inr", Get(pred_damage_usd)))
    /\ pc' = "results"
    /\ UNCHANGED << errors, stepFrame, probas, pred_idx, pred_label, pred_log,
                    pred_damage_usd, exc >>

(* ------------------------------ display ------------------------------- *)

displayFrame ==
    << stepFrame, probas, pred_idx, pred_label, pred_log,
       pred_damage_usd, pred_damage_inr >>

\* The header, the four metrics and the location line.
Results ==
    /\ pc = "results"
    /\ trace' = trace \o
         << El("results_header", "Prediction Results"),
            El("metric_risk_level", Get(pred_label)),
            El("metric_high_probability", Get(probas)[3]),
            El("metric_damage", format_rupees(Get(pred_damage_inr))),
            El("metric_confidence", Max3(Get(probas))),
            El("analysis_for", << city_name, lat, lon >>) >>
    /\ pc' = "assess"
    /\ UNCHANGED << errors, displayFrame, exc >>

\* The alert system: one of st.error, st.warning, st.success.
Assess ==
    /\ pc = "assess"
    /\ LET tier == RiskAssessment(Get(pred_label), Get(probas)[3]) IN
       trace' = trace \o
         << El("risk_assessment_header", "Risk Assessment"),
            El("risk_assessment",
               [ tier |-> tier, kind |-> AssessmentKind(tier) ]) >>
    /\ pc' = "charts"
    /\ UNCHANGED << errors, displayFrame, exc >>

\* The two charts; either plot call can raise.
Charts ==
    /\ pc = "charts"
    /\ LET head == << El("risk_analysis_header", "Risk Analysis") >>
           c1 == << El("probability_chart", Get(probas)) >>
           c2 == << El("damage_chart", Get(pred_damage_inr)) >>
       IN \/ /\ trace' = trace \o head \o c1 \o c2
             /\ pc' = "map"
             /\ UNCHANGED exc
          \/ /\ trace' = trace \o head
             /\ Raise("plot failed")
          \/ /\ trace' = trace \o head \o c1
             /\ Raise("plot failed")
    /\ UNCHANGED << errors, displayFrame >>

\* The risk level main hands to create_interactive_map.
MapRiskLevel == Get(pred_label)

\* The map section; building or drawing the map can raise.
Map ==
    /\ pc = "map"
    /\ LET head == << El("map_header", "Location Map"),
                      El("map_features", "info") >>
       IN \/ /\ trace' = trace \o head \o
                  << El("map", create_interactive_map(lat, lon, MapRiskLevel,
                           Get(probas)[3], Get(pred_damage_inr), city_name)) >>
             /\ pc' = "static"
             /\ UNCHANGED exc
          \/ /\ trace' = trace \o head
             /\ Raise("map failed")
    /\ UNCHANGED << errors, displayFrame >>

\* An except clause that writes a fixed message and drops the exception.
ErrorReportNoCause(e) ==
    << El("prediction_error", "error"), El("retry_info", "check inputs") >>

\* What the except clause writes for the exception e.
ErrorReport(e) ==
    << El("prediction_error", e), El("retry_info", "check inputs") >>

\* except Exception as e
Except ==
    /\ pc = "except"
    /\ trace' = trace \o ErrorReport(Get(exc))
    /\ errors' = errors + 1
    /\ pc' = "static"
    /\ UNCHANGED << displayFrame, exc >>

\* The end of main: the reference sections and the instructions.
Static ==
    /\ pc = "static"
    /\ trace' = trace \o StaticSections \o << El("how_to_use", "sidebar") >>
    /\ EndRun

(* ---------------------------- specification --------------------------- *)

Next ==
    \/ Rerun \/ EditFeature \/ EditLocation \/ Click
    \/ LoadModels \/ Degraded \/ Form
    \/ PredictProba \/ Predict \/ Label \/ RegPredict \/ InverseLog \/ Convert
    \/ Results \/ Assess \/ Charts \/ Map \/ Except \/ Static

Spec == Init /\ [][Next]_vars

(* ------------------- unit-level checks of pure functions -------------- *)

progVars ==
    << pc, runs, cache, loadCount, features, lat, lon, city_name, clicked,
       clf, reg, probas, pred_idx, pred_label, pred_log,
       pred_damage_usd, pred_damage_inr, exc, trace, errors,
       sess, gcf, lastPred >>

Labels == { RISK_LABELS[i] : i \in DOMAIN RISK_LABELS }

\* Amounts (paise) format_rupees is applied to: around zero, 50,000,
\* 99,999, 100,000, 9,999,999 and 10,000,000 rupees.
FmtAmounts ==
    UNION { (Rupees(c) - FmtWindow)..(Rupees(c) + FmtWindow) :
              c \in { 0, 50000, 99999, 100000, 9999999, 10000000 } }

\* format_rupees applied to one amount.
ApplyFormat ==
    /\ h.op = "none"
    /\ \E a \in FmtAmounts :
         h' = [ op |-> "format_rupees", amount |-> a, out |-> format_rupees(a) ]
    /\ UNCHANGED progVars

\* The alert rule applied to two predictions.
ApplyTier ==
    /\ h.op = "none"
    /\ \E l1 \in Labels, l2 \in Labels, p1 \in 0..ProbDenom, p2 \in 0..ProbDenom :
         h' = [ op |-> "tier",
                label1 |-> l1, p1 |-> p1, tier1 |-> RiskAssessment(l1, p1),
                label2 |-> l2, p2 |-> p2, tier2 |-> RiskAssessment(l2, p2) ]
    /\ UNCHANGED progVars

\* The inverse-log transform and the conversion applied to two outputs.
ApplyDamage ==
    /\ h.op = "none"
    /\ \E y1 \in DOMAIN Expm1Table, y2 \in DOMAIN Expm1Table :
         h' = [ op |-> "damage",
                y1 |-> y1, inr1 |-> convert_usd_to_inr(expm1(y1)),
                y2 |-> y2, inr2 |-> convert_usd_to_inr(expm1(y2)) ]
    /\ UNCHANGED progVars

PureNext == ApplyFormat \/ ApplyTier \/ ApplyDamage

PureSpec == Init /\ [][PureNext]_vars

(* ------------------------- reading the trace -------------------------- *)

Shown(name) == \E i \in DOMAIN trace : trace[i].el = name

Count(name) == Cardinality({ i \in DOMAIN trace : trace[i].el = name })

\* The value carried by the element called name (a run writes each
\* element at most once).
ValOf(name) == trace[CHOOSE i \in DOMAIN trace : trace[i].el = name].val

StaticNames ==
    { "emergency_contacts", "safety_guidelines", "emergency_kit",
      "affected_guidelines", "help_others", "donation_section",
      "awareness_facts" }

ResultNames ==
    { "results_header", "metric_risk_level", "metric_high_probability",
      "metric_damage", "metric_confidence", "analysis_for",
      "risk_assessment_header", "risk_assessment", "risk_analysis_header",
      "probability_chart", "damage_chart", "map_header", "map_features",
      "map" }

InferenceNames ==
    { "predict_proba", "predict", "label", "reg_predict", "expm1",
      "convert_usd_to_inr" }

\* load_models returned no models.
ModelsMissing ==
    /\ cache # None
    /\ (Get(cache).clf = None \/ Get(cache).reg = None)

ModelsLoaded ==
    /\ cache # None
    /\ Get(cache).clf # None
    /\ Get(cache).reg # None

(* ------------------------------- claims ------------------------------- *)

\* C1: whenever a risk assessment is on the page, its tier is High if the
\* predicted class shown is High or P(High) > 0.6, otherwise Medium if the
\* class is Medium or P(High) > 0.3, otherwise Low; no run writes more than
\* one guidance message, and a prediction that ran to its map wrote exactly
\* one.
C1_TierRule ==
    /\ Count("risk_assessment") <= 1
    /\ Shown("map") => Count("risk_assessment") = 1
    /\ Shown("risk_assessment") =>
         LET label == ValOf("metric_risk_level")
             p == ValOf("metric_high_probability")
             tier == ValOf("risk_assessment").tier
         IN  /\ label \in { "Low", "Medium", "High" }
             /\ (label = "High" \/ 10 * p > 6 * ProbDenom) => tier = "High"
             /\ ( /\ ~(label = "High" \/ 10 * p > 6 * ProbDenom)
                  /\ (label = "Medium" \/ 10 * p > 3 * ProbDenom) )
                    => tier = "Medium"
             /\ ( /\ label = "Low"
                  /\ ~(10 * p > 3 * ProbDenom) ) => tier = "Low"

\* C1's case: class Low with P(High) between 0.3 and 0.6 is shown as Medium.
C1_Witness ==
    /\ Shown("risk_assessment")
    /\ ValOf("metric_risk_level") = "Low"
    /\ 10 * ValOf("metric_high_probability") > 3 * ProbDenom
    /\ ValOf("risk_assessment").tier = "Medium"

RadiusOf(tier) ==
    CASE tier = "High" -> 3000 [] tier = "Medium" -> 2000 [] tier = "Low" -> 1000

\* C2: whenever the map is on the page, its circle has the radius and the
\* colour of the tier of the risk assessment written in the same run.
C2_MapMatchesTier ==
    Shown("map") =>
        LET tier == ValOf("risk_assessment").tier
            circle == ValOf("map").circle
        IN  /\ circle.radius = RadiusOf(tier)
            /\ circle.color = RISK_COLORS[tier]

\* C2's failing case is on the page: class Low, P(High) above 0.3, the
\* assessment Medium and the circle that of Low.
C2_Case ==
    /\ Shown("map")
    /\ ValOf("metric_risk_level") = "Low"
    /\ ValOf("risk_assessment").tier = "Medium"
    /\ ValOf("map").circle.radius = 1000

\* C3: a run never stops part-way; every finished run has written all seven
\* reference sections; when load_models returned no models the run goes no
\* further than the installation instructions and the reference sections:
\* no input form, no model call, no result, and the instructions are shown
\* (in the run that tried the load, the failure and its help text as well).
C3_StaticAlways ==
    /\ pc = "load" => ENABLED LoadModels
    /\ pc = "degraded" => ENABLED Degraded
    /\ pc = "static" => ENABLED Static
    /\ (pc = "idle" /\ runs > 0) => \A n \in StaticNames : Count(n) = 1
    /\ ModelsMissing =>
         /\ pc \in { "idle", "load", "degraded" }
         /\ \A i \in DOMAIN trace :
              trace[i].el \notin
                ResultNames \cup InferenceNames \cup { "inputs_form" }
         /\ pc = "idle" => Shown("install_instructions")
         /\ Shown("loading_spinner") =>
              Shown("model_loading_failed") /\ Shown("load_help")

\* C3's case: a run after a failed load has finished with the reference
\* sections and the instructions on the page.
C3_Witness ==
    /\ ModelsMissing
    /\ pc = "idle"
    /\ runs >= 2
    /\ Shown("install_instructions")
    /\ \A n \in StaticNames : Shown(n)

C4_Inv ==
    /\ exc # None => pc \in { "except", "static" }
    /\ (pc = "static" /\ exc # None) =>
         /\ Count("prediction_error") = 1
         /\ ValOf("prediction_error") = Get(exc)
    /\ Shown("prediction_error") =>
         ValOf("prediction_error") \in Causes \cup { "KeyError" }
    /\ (pc = "idle" /\ Shown("prediction_error")) =>
         \A n \in StaticNames : Shown(n)
    /\ pc = "except" => ENABLED Except
    /\ pc = "static" => ENABLED Static

C4_Act ==
    pc \notin { "idle", "load" } =>
        UNCHANGED << cache, loadCount, features, lat, lon, city_name >>

\* C4: an exception raised by any step of a prediction is written to the
\* page as a prediction error that carries the exception; the run goes on
\* to the reference sections; no step of a prediction, failed or not,
\* changes the cached models or the widget values.
C4_FailureReported == []C4_Inv /\ [][C4_Act]_vars

\* C4's case: after a reported prediction error, a later prediction ran to
\* its map on the models of the one load.
C4_Witness ==
    /\ errors >= 1
    /\ pc = "idle"
    /\ Shown("map")
    /\ ~Shown("prediction_error")
    /\ loadCount = 1

\* C6: for an amount >= 0, format_rupees prints crore from 10,000,000
\* rupees up, lakh from 100,000 rupees up to below 10,000,000, and below
\* 100,000 the grouped integer with no suffix.
C6_FormatUnits ==
    (h.op = "format_rupees" /\ h.amount >= 0) =>
        LET a == h.amount
            o == h.out
        IN  /\ o.amount = a
            /\ a >= 1000000000 =>
                 o.suffix = "crore" /\ o.divisor = 10000000 /\ o.decimals = 2
            /\ (a >= 10000000 /\ a < 1000000000) =>
                 o.suffix = "lakh" /\ o.divisor = 100000 /\ o.decimals = 2
            /\ a < 10000000 =>
                 o.suffix = "" /\ o.divisor = 1 /\ o.decimals = 0 /\ o.grouped

\* C6's case: exactly 10,000,000 rupees prints as crore.
C6_Witness ==
    /\ h.op = "format_rupees"
    /\ h.amount = 1000000000
    /\ h.out.suffix = "crore"

\* C7: the converted damage is never negative, neither as computed nor as
\* handed to format_rupees, the damage chart and the map.
C7_DamageNonNegative ==
    /\ pred_damage_usd # None => Get(pred_damage_usd) >= 0
    /\ pred_damage_inr # None => Get(pred_damage_inr) >= 0
    /\ Shown("metric_damage") => ValOf("metric_damage").amount >= 0
    /\ Shown("damage_chart") => ValOf("damage_chart") >= 0
    /\ Shown("map") => ValOf("map").marker.damage >= 0

Rank(t) == CASE t = "Low" -> 0 [] t = "Medium" -> 1 [] t = "High" -> 2

\* C8: for two predictions of the same class the one with the larger
\* P(High) has no lower tier; for two with the same P(High) the one of the
\* more severe class has no lower tier; the tier is never below the class.
C8_TierMonotone ==
    h.op = "tier" =>
        /\ (h.label1 = h.label2 /\ h.p1 <= h.p2) =>
              Rank(h.tier1) <= Rank(h.tier2)
        /\ (h.p1 = h.p2 /\ Rank(h.label1) <= Rank(h.label2)) =>
              Rank(h.tier1) <= Rank(h.tier2)
        /\ Rank(h.tier1) >= Rank(h.label1)

\* C8's case: class Low, and raising P(High) takes the tier from Low to High.
C8_Witness ==
    /\ h.op = "tier"
    /\ h.label1 = "Low" /\ h.label2 = "Low"
    /\ h.p1 < h.p2
    /\ h.tier1 = "Low" /\ h.tier2 = "High"

ModelCalls == { "predict_proba", "predict", "reg_predict" }

C9_Inv ==
    /\ loadCount <= 1
    /\ (cache = None) <=> (loadCount = 0)
    /\ \A i \in DOMAIN trace :
         trace[i].el \in ModelCalls =>
            /\ ModelsLoaded
            /\ Some(trace[i].val.model) =
                 IF trace[i].el = "reg_predict"
                 THEN Get(cache).reg ELSE Get(cache).clf
    /\ ModelsMissing =>
         /\ pc \in { "idle", "load", "degraded" }
         /\ ~Shown("inputs_form")

C9_Act == cache # None => (cache' = cache /\ loadCount' = loadCount)

\* C9: the body of load_models runs at most once in the process; once it
\* has run, its result stays the cached one: every model call of every
\* later run is made on the objects of that one load, and after a load
\* that failed no later run gets past the reference content.
C9_LoadedOnce == []C9_Inv /\ [][C9_Act]_vars

\* C9's case: a later run got the models from the cache and called them.
C9_Witness ==
    /\ runs >= 2
    /\ loadCount = 1
    /\ Shown("reg_predict")

\* C10: every result element on the page is preceded, in the same run, by
\* all the inference steps; a run without a click makes no model call and
\* writes no result and no prediction error; where a prediction error is
\* on the page and the conversion was not reached, no result element is.
C10_ResultsAfterInference ==
    /\ \A i \in DOMAIN trace :
         trace[i].el \in ResultNames =>
            \A n \in InferenceNames :
               \E j \in 1..(i - 1) : trace[j].el = n
    /\ (pc # "idle" /\ ~clicked) =>
         \A i \in DOMAIN trace :
            trace[i].el \notin
              ResultNames \cup InferenceNames \cup { "prediction_error" }
    /\ (Shown("prediction_error") /\ ~Shown("convert_usd_to_inr")) =>
         \A i \in DOMAIN trace : trace[i].el \notin ResultNames

\* C10's case: the regressor failed after the classifier had answered, and
\* the page holds the error and no result.
C10_Witness ==
    /\ Shown("predict")
    /\ Shown("prediction_error")
    /\ ValOf("prediction_error") = "regressor failed"
    /\ ~Shown("results_header")

(* ------------------------- further properties ------------------------- *)

\* The converted damage is strictly increasing in the regressor output.
DamageMonotone ==
    (h.op = "damage" /\ h.y1 < h.y2) => h.inr1 < h.inr2

\* Every feature value the program holds is within the limits of its widget.
FeaturesInRange ==
    \A f \in FeatureNames :
        /\ features[f] >= FeatureMin(f)
        /\ FeatureMax(f) >= 0 => features[f] <= FeatureMax(f)

TypeOK ==
    /\ pc \in { "idle", "load", "degraded", "form", "proba", "predict",
                "label", "reg", "expm1", "convert", "results", "assess",
                "charts", "map", "except", "static" }
    /\ runs \in 0..MaxRuns
    /\ loadCount \in 0..MaxRuns
    /\ errors \in 0..MaxRuns
    /\ clicked \in BOOLEAN
    /\ DOMAIN features = FeatureNames
    /\ FeaturesInRange
    /\ lat \in LatChoices /\ lon \in LonChoices /\ city_name \in CityChoices
    /\ probas \in { None } \cup { Some(p) : p \in ProbTriples }
    /\ pred_idx \in { None } \cup { Some(i) : i \in ClassIdx }
    /\ pred_label \in { None } \cup { Some(l) : l \in Labels }
    /\ pred_log \in { None } \cup { Some(y) : y \in RegOutputs }
    /\ exc \in { None } \cup { Some(c) : c \in Causes \cup { "KeyError" } }

(* ------------------ several sessions, deterministic models ------------ *)

\* The run of main() once more, for each of several sessions that share the
\* process.  Steps that touch nothing outside the run are taken together
\* with the step before them.  Of the library calls that can raise, the
\* first model call and the map are taken to; the label lookup raises when
\* the class has no label.

\* Fitted pipelines that may be stored under models/.  predict_proba,
\* predict and the regressor's predict of a fitted pipeline are functions
\* of the row they are given; two such pipelines stand for the files.
Artifacts == { "A", "B" }

\* clf.predict_proba(X)[0] of the pipeline m.
ClfProba(m, X) ==
    IF m = "A"
    THEN IF X[1] > 0 THEN << ProbDenom - 7, 0, 7 >>
                     ELSE << ProbDenom - 2, 0, 2 >>
    ELSE IF X[1] > 0 THEN << 0, ProbDenom - 4, 4 >>
                     ELSE << ProbDenom, 0, 0 >>

\* int(clf.predict(X)[0]) of the pipeline m; pipeline B answers a dry row
\* with a class RISK_LABELS has no entry for.
ClfClass(m, X) ==
    IF m = "A"
    THEN IF X[1] > 0 THEN 2 ELSE 0
    ELSE IF X[1] > 0 THEN 1 ELSE MaxClassIdx

\* reg.predict(X)[0] of the pipeline m.
RegOut(m, X) ==
    IF m = "A"
    THEN IF X[1] > 0 THEN 12 ELSE 8
    ELSE IF X[1] > 0 THEN 0 ELSE -1

\* Widgets the sessions are taken to edit: one feature and the name.
SessFields == { "rainfall_mm" }

\* One process-wide record that every session's run reads.
SessRecordShared(s) == sess[CHOOSE t \in Sessions : TRUE].features

\* The record of the last completed prediction, kept and read again.
SessRecordPrevious(s) ==
    IF lastPred # None THEN Get(lastPred).request.features
                       ELSE sess[s].features

\* features = {} and its eight assignments: the dict of the run of s.
SessRecord(s) == sess[s].features

\* pd.DataFrame([features], columns=NUM_FEATURES) in the run of s.
SessX(s) == [ i \in DOMAIN NUM_FEATURES |-> SessRecord(s)[NUM_FEATURES[i]] ]

\* The variables of the single-session specification.
soloVars ==
    << pc, runs, features, lat, lon, city_name, clicked,
       clf, reg, probas, pred_idx, pred_label, pred_log,
       pred_damage_usd, pred_damage_inr, exc, trace, errors, h >>

\* The session s takes a step to r; the other sessions stand still.
SessStep(s, r) ==
    /\ sess' = [ sess EXCEPT ![s] = r ]
    /\ UNCHANGED soloVars

SessFormOnPage(s) ==
    \E i \in DOMAIN sess[s].trace : sess[s].trace[i].el = "inputs_form"

\* An interaction of session s re-runs the script for s from the top.
SessBeginRun(s, r) ==
    /\ sess[s].pc = "idle"
    /\ SessStep(s, [ r EXCEPT !.pc = "load", !.trace = PageTop ])
    /\ UNCHANGED << procVars, gcf, lastPred >>

SessRerun(s) ==
    SessBeginRun(s, [ sess[s] EXCEPT !.clicked = FALSE ])

SessEdit(s) ==
    /\ SessFormOnPage(s)
    /\ \/ \E f \in SessFields :
            \E v \in FeatureChoices(f) \ { sess[s].features[f] } :
               SessBeginRun(s, [ sess[s] EXCEPT !.features[f] = v,
                                               !.clicked = FALSE ])
       \/ \E c \in CityChoices \ { sess[s].city_name } :
            SessBeginRun(s, [ sess[s] EXCEPT !.city_name = c,
                                            !.clicked = FALSE ])

SessClick(s) ==
    /\ SessFormOnPage(s)
    /\ SessBeginRun(s, [ sess[s] EXCEPT !.clicked = TRUE ])

\* clf, reg = load_models() in the run of s.  st.cache_resource holds a
\* lock while the body runs, so the lookup and the fill are one step.
SessLoadModels(s) ==
    /\ sess[s].pc = "load"
    /\ LET hit == CacheLookup IN
        IF hit # None
        THEN /\ SessStep(s, [ sess[s] EXCEPT
                    !.clf = Get(hit).clf, !.reg = Get(hit).reg,
                    !.pc = IF Get(hit).clf = None \/ Get(hit).reg = None
                           THEN "degraded" ELSE "form" ])
             /\ UNCHANGED << cache, loadCount >>
        ELSE \E outcome \in LoadOutcomes : \E m \in Artifacts :
             LET res == LoadResult(outcome, m) IN
             /\ loadCount' = loadCount + 1
             /\ cache' = Some(res)
             /\ SessStep(s, [ sess[s] EXCEPT
                    !.clf = res.clf, !.reg = res.reg,
                    !.trace = @ \o LoadMessages(outcome),
                    !.pc = IF res.clf = None \/ res.reg = None
                           THEN "degraded" ELSE "form" ])
    /\ UNCHANGED << gcf, lastPred >>

\* main returns in the run of s: its locals die, the button reads False.
SessEndRun(r) ==
    [ r EXCEPT !.pc = "idle", !.clicked = FALSE,
               !.clf = None, !.reg = None, !.probas = None,
               !.pred_idx = None, !.pred_label = None, !.pred_log = None,
               !.pred_damage_usd = None, !.pred_damage_inr = None,
               !.exc = None ]

\* A step of the run of s that touches nothing outside the run.
SessLocal(s, r) ==
    /\ SessStep(s, r)
    /\ UNCHANGED << procVars, gcf, lastPred >>

\* An exception inside the try block of the run of s.
SessRaise(s, r, cause) ==
    SessLocal(s, [ r EXCEPT !.pc = "except", !.exc = Some(cause) ])

SessDegraded(s) ==
    /\ sess[s].pc = "degraded"
    /\ SessLocal(s, SessEndRun([ sess[s] EXCEPT !.trace =
          @ \o << El("install_instructions", "info") >> \o StaticSections ]))

SessForm(s) ==
    /\ sess[s].pc = "form"
    /\ SessLocal(s, [ sess[s] EXCEPT
          !.trace = @ \o
             << El("inputs_form", sess[s].features),
                El("coordinate_picker", "sidebar"),
                El("using_coordinates", << sess[s].lat, sess[s].lon >>),
                El("feature_summary", sess[s].features) >>,
          !.pc = IF sess[s].clicked THEN "proba" ELSE "static" ])

\* probas = clf.predict_proba(X_input)[0]: a read of the shared model.
SessPredictProba(s) ==
    /\ sess[s].pc = "proba"
    /\ \/ SessRaise(s, sess[s], "predict_proba failed")
       \/ LET m == Get(sess[s].clf)
              p == ClfProba(m, SessX(s))
          IN SessLocal(s, [ sess[s] EXCEPT
                !.probas = Some(p),
                !.trace = @ \o << El("predict_proba",
                                     [ model |-> m, X |-> SessX(s) ]) >>,
                !.pc = "predict" ])

\* pred_idx = int(clf.predict(X_input)[0]); pred_label = RISK_LABELS[pred_idx]
SessPredict(s) ==
    /\ sess[s].pc = "predict"
    /\ LET m == Get(sess[s].clf)
           k == ClfClass(m, SessX(s))
           called == [ sess[s] EXCEPT
              !.pred_idx = Some(k),
              !.trace = @ \o << El("predict",
                                   [ model |-> m, X |-> SessX(s) ]) >> ]
       IN IF k \in DOMAIN RISK_LABELS
          THEN SessLocal(s, [ called EXCEPT
                  !.pred_label = Some(RISK_LABELS[k]),
                  !.trace = @ \o << El("label", RISK_LABELS[k]) >>,
                  !.pc = "reg" ])
          ELSE SessRaise(s, called, "KeyError")

\* pred_log = reg.predict(X_input)[0] and the two conversions after it.
SessRegPredict(s) ==
    /\ sess[s].pc = "reg"
    /\ LET m == Get(sess[s].reg)
           y == RegOut(m, SessX(s))
           usd == expm1(y)
           inr == convert_usd_to_inr(usd)
       IN SessLocal(s, [ sess[s] EXCEPT
             !.pred_log = Some(y),
             !.pred_damage_usd = Some(usd),
             !.pred_damage_inr = Some(inr),
             !.trace = @ \o
                << El("reg_predict", [ model |-> m, X |-> SessX(s) ]),
                   El("expm1", usd), El("convert_usd_to_inr", inr) >>,
             !.pc = "results" ])

\* The header, the metrics, the location line and the alert of the run of s.
SessResults(s) ==
    /\ sess[s].pc = "results"
    /\ LET r == sess[s]
           tier == RiskAssessment(Get(r.pred_label), Get(r.probas)[3])
       IN SessLocal(s, [ r EXCEPT
             !.trace = @ \o
                << El("results_header", "Prediction Results"),
                   El("metric_risk_level", Get(r.pred_label)),
                   El("metric_high_probability", Get(r.probas)[3]),
                   El("metric_damage", format_rupees(Get(r.pred_damage_inr))),
                   El("metric_confidence", Max3(Get(r.probas))),
                   El("analysis_for", << r.city_name, r.lat, r.lon >>),
                   El("risk_assessment_header", "Risk Assessment"),
                   El("risk_assessment",
                      [ tier |-> tier, kind |-> AssessmentKind(tier) ]),
                   El("risk_analysis_header", "Risk Analysis") >>,
             !.pc = "plot_probability" ])

\* The chart a run is about to draw, by the position of the run.
ChartAt(p) ==
    IF p \in { "plot_probability", "layout_probability" }
    THEN "probability_chart" ELSE "damage_chart"

\* fig, ax = plt.subplots(...) and the drawing on ax: pyplot registers the
\* new figure and makes it the current figure of the process; gcf names the
\* session whose run made the current figure.
SessSubplots(s) ==
    /\ sess[s].pc \in { "plot_probability", "plot_damage" }
    /\ gcf' = Some(s)
    /\ SessStep(s, [ sess[s] EXCEPT
          !.pc = IF @ = "plot_probability"
                 THEN "layout_probability" ELSE "layout_damage" ])
    /\ UNCHANGED << procVars, lastPred >>

\* plt.tight_layout(); return fig; st.pyplot(fig).  tight_layout works on
\* pyplot's current figure, which is this run's figure unless another
\* session's run called plt.subplots in between; the bars and the text are
\* drawn on the run's own ax either way.
SessTightLayout(s) ==
    /\ sess[s].pc \in { "layout_probability", "layout_damage" }
    /\ LET r == sess[s]
           chart == ChartAt(r.pc)
           data == IF chart = "probability_chart"
                   THEN Get(r.probas) ELSE Get(r.pred_damage_inr)
       IN SessLocal(s, [ r EXCEPT
             !.trace = @ \o
                << El(chart, [ data |-> data,
                               laid_out |-> gcf = Some(s) ]) >>,
             !.pc = IF @ = "layout_probability"
                    THEN "plot_damage" ELSE "map" ])

\* The map section of the run of s.
SessMap(s) ==
    /\ sess[s].pc = "map"
    /\ LET r == sess[s]
           head == << El("map_header", "Location Map"),
                      El("map_features", "info") >>
       IN \/ SessLocal(s, [ r EXCEPT
                !.trace = @ \o head \o
                   << El("map", create_interactive_map(r.lat, r.lon,
                         Get(r.pred_label), Get(r.probas)[3],
                         Get(r.pred_damage_inr), r.city_name)) >>,
                !.pc = "static" ])
          \/ SessRaise(s, [ r EXCEPT !.trace = @ \o head ], "map failed")

\* except Exception as e, in the run of s.
SessExcept(s) ==
    /\ sess[s].pc = "except"
    /\ SessLocal(s, [ sess[s] EXCEPT
          !.trace = @ \o ErrorReport(Get(sess[s].exc)),
          !.pc = "static" ])

\* What a page element shows of the prediction: a chart by what it plots.
ResultData(e) ==
    IF e.el \in { "probability_chart", "damage_chart" }
    THEN El(e.el, e.val.data) ELSE e

IsResult(e) == e.el \in ResultNames

\* The results section of a page, in the order it was written.
PageResults(page) ==
    LET shown == SelectSeq(page, IsResult)
    IN [ i \in DOMAIN shown |-> ResultData(shown[i]) ]

PageShows(page, name) == \E i \in DOMAIN page : page[i].el = name

\* The request a session's widgets make.
Request(r) ==
    [ features |-> r.features, lat |-> r.lat, lon |-> r.lon,
      city_name |-> r.city_name ]

\* The end of main in the run of s.  The history variable keeps the request
\* and the results of a prediction that was completed.
SessStatic(s) ==
    /\ sess[s].pc = "static"
    /\ LET page == sess[s].trace \o StaticSections
                       \o << El("how_to_use", "sidebar") >>
       IN /\ SessStep(s, SessEndRun([ sess[s] EXCEPT !.trace = page ]))
          /\ lastPred' = IF PageShows(page, "map")
                         THEN Some([ request |-> Request(sess[s]),
                                     results |-> PageResults(page) ])
                         ELSE lastPred
    /\ UNCHANGED << procVars, gcf >>

SessNext ==
    \E s \in Sessions :
       \/ SessRerun(s) \/ SessEdit(s) \/ SessClick(s)
       \/ SessLoadModels(s) \/ SessDegraded(s) \/ SessForm(s)
       \/ SessPredictProba(s) \/ SessPredict(s) \/ SessRegPredict(s)
       \/ SessResults(s) \/ SessSubplots(s) \/ SessTightLayout(s)
       \/ SessMap(s) \/ SessExcept(s) \/ SessStatic(s)

SessSpec == Init /\ [][SessNext]_vars

(* ------------------------- C11: stateless predictions ----------------- *)

IsPrefix(a, b) ==
    /\ Len(a) <= Len(b)
    /\ \A i \in DOMAIN a : a[i] = b[i]

\* Two results sections agree as far as both were written.
Agree(a, b) == IsPrefix(a, b) \/ IsPrefix(b, a)

\* The locals of main in the run of a session.
SessLocals(r) ==
    << r.clf, r.reg, r.probas, r.pred_idx, r.pred_label, r.pred_log,
       r.pred_damage_usd, r.pred_damage_inr, r.exc >>

\* A completed prediction is on the page of s.
Completed(s) == PageShows(sess[s].trace, "map")

\* Equal requests get equal results: the results on a session's page agree
\* with those of the last completed prediction of the process when the
\* requests are equal, and with those on any other session's page for an
\* equal request; a completed prediction shows the whole of them.  Between
\* runs a session holds no local of main.
C11_Inv ==
    /\ \A s \in Sessions :
         /\ ( lastPred # None /\ Get(lastPred).request = Request(sess[s]) )
              => /\ IsPrefix(PageResults(sess[s].trace), Get(lastPred).results)
                 /\ Completed(s) =>
                      PageResults(sess[s].trace) = Get(lastPred).results
         /\ sess[s].pc = "idle" =>
              \A i \in DOMAIN SessLocals(sess[s]) :
                 SessLocals(sess[s])[i] = None
    /\ \A s, t \in Sessions :
         Request(sess[s]) = Request(sess[t]) =>
            /\ Agree(PageResults(sess[s].trace), PageResults(sess[t].trace))
            /\ ( Completed(s) /\ Completed(t) ) =>
                 PageResults(sess[s].trace) = PageResults(sess[t].trace)

\* What a prediction is computed from is written by no run: the cached
\* models stay the ones that were loaded, and a session's widget values
\* change only with the interaction that starts a run.
C11_Act ==
    /\ cache # None => cache' = cache
    /\ \A s \in Sessions :
         sess[s].pc # "idle" => Request(sess'[s]) = Request(sess[s])

\* C11: predictions are stateless.  For the same models, two prediction
\* requests with the same eight feature values, coordinates and location
\* name produce the same risk level, probabilities, damage amount, tier,
\* charts and map, whatever predictions, failed predictions or other
\* interactions came before each of them; no prediction writes anything a
\* later prediction is computed from.
C11_Stateless == []C11_Inv /\ [][C11_Act]_vars

\* A session has just completed a prediction for a request that an earlier
\* prediction was completed for, while the other session's last prediction
\* failed.
C11_Witness ==
    \E s, t \in Sessions :
       /\ s # t
       /\ sess[s].pc = "static"
       /\ Completed(s)
       /\ lastPred # None
       /\ Get(lastPred).request = Request(sess[s])
       /\ PageShows(sess[t].trace, "prediction_error")
       /\ Request(sess[t]) # Request(sess[s])

(* ------------------------- C12: session isolation --------------------- *)

\* The row made of the feature widgets of session s.
OwnRow(s) == [ i \in DOMAIN NUM_FEATURES |-> sess[s].features[NUM_FEATURES[i]] ]

PageVal(page, name) ==
    page[CHOOSE i \in DOMAIN page : page[i].el = name].val

\* The calls a run makes on the shared models.
CallNames == { "predict_proba", "predict", "reg_predict" }

\* Every call of s on the models was given the row of s, and every local
\* of the run of s that is set holds what the models answer for that row.
OwnLocals(s) ==
    LET r == sess[s]
        m == Get(Get(cache).clf)
        usd == expm1(RegOut(m, OwnRow(s)))
    IN /\ \A i \in DOMAIN r.trace :
            r.trace[i].el \in CallNames =>
               r.trace[i].val = [ model |-> m, X |-> OwnRow(s) ]
       /\ r.probas # None => Get(r.probas) = ClfProba(m, OwnRow(s))
       /\ r.pred_idx # None => Get(r.pred_idx) = ClfClass(m, OwnRow(s))
       /\ r.pred_label # None =>
            Get(r.pred_label) = RISK_LABELS[ClfClass(m, OwnRow(s))]
       /\ r.pred_log # None => Get(r.pred_log) = RegOut(m, OwnRow(s))
       /\ r.pred_damage_usd # None => Get(r.pred_damage_usd) = usd
       /\ r.pred_damage_inr # None =>
            Get(r.pred_damage_inr) = convert_usd_to_inr(usd)

\* Every result on the page of s shows what the models answer for the row
\* of s, with the coordinates and the name of s.
OwnResults(s) ==
    LET r == sess[s]
        page == r.trace
        m == Get(Get(cache).clf)
        p == ClfProba(m, OwnRow(s))
        label == RISK_LABELS[ClfClass(m, OwnRow(s))]
        inr == convert_usd_to_inr(expm1(RegOut(m, OwnRow(s))))
    IN /\ PageShows(page, "metric_risk_level") =>
            /\ PageVal(page, "metric_risk_level") = label
            /\ PageVal(page, "metric_high_probability") = p[3]
            /\ PageVal(page, "metric_damage") = format_rupees(inr)
            /\ PageVal(page, "metric_confidence") = Max3(p)
            /\ PageVal(page, "analysis_for") = << r.city_name, r.lat, r.lon >>
            /\ PageVal(page, "risk_assessment").tier
                  = RiskAssessment(label, p[3])
       /\ PageShows(page, "probability_chart") =>
            PageVal(page, "probability_chart").data = p
       /\ PageShows(page, "damage_chart") =>
            PageVal(page, "damage_chart").data = inr
       /\ PageShows(page, "map") =>
            PageVal(page, "map") = create_interactive_map(r.lat, r.lon,
                                      label, p[3], inr, r.city_name)

\* A run in progress that has passed the load, or a page with results.
Predicting(s) ==
    \/ sess[s].pc \notin { "idle", "load", "degraded" }
    \/ PageShows(sess[s].trace, "results_header")

C12_Inv ==
    \A s \in Sessions :
       Predicting(s) => /\ ModelsLoaded
                        /\ OwnLocals(s)
                        /\ OwnResults(s)

\* A step is a step of one session and leaves the other sessions' widget
\* values, locals and pages as they were; once loaded, the shared models
\* are never assigned.
C12_Act ==
    /\ \A s, t \in Sessions :
          ( s # t /\ sess'[s] # sess[s] ) => sess'[t] = sess[t]
    /\ ModelsLoaded => cache' = cache

\* C12: when several sessions run predictions concurrently against the
\* shared cached models, under every interleaving of their steps each
\* session's results are computed only from that session's own feature
\* record, coordinates and location name: the record and the intermediate
\* values are local to the session's run, the models are only read, and no
\* session sees a value derived from another session's inputs.
C12_SessionsIsolated == []C12_Inv /\ [][C12_Act]_vars

\* Two sessions with different feature records and different location
\* names are both between plt.subplots and plt.tight_layout of their runs,
\* the current figure being that of the other one.
C12_Witness ==
    \E s, t \in Sessions :
       /\ s # t
       /\ sess[s].pc = "layout_probability"
       /\ sess[t].pc = "layout_probability"
       /\ gcf = Some(t)
       /\ sess[s].features # sess[t].features
       /\ sess[s].city_name # sess[t].city_name

====
